---- MODULE Spec2Model ----
(***************************************************************************)
(* Trivia API (backend/flaskr/__init__.py): the seven request handlers of  *)
(* create_app, the paginate_models helper, the error handlers and the      *)
(* process-wide random_question variable of the quiz handler.              *)
(*                                                                         *)
(* The Record Store (models.py + SQLAlchemy) is the tables `questions` and *)
(* `categories`; a query is the set/sequence of rows it selects, or a      *)
(* raised exception when the store faults.                                 *)
(***************************************************************************)
EXTENDS Integers, Sequences, FiniteSets, TLC

VARIABLES
    questions,        \* table Question: set of rows [id, question, category]
    categories,       \* table Category: set of category ids (type label = CategoryType)
    nextId,           \* next primary key the store assigns on insert
    random_question,  \* the module-level global written by play()
    resp,             \* the response of the last request handled (with its request)
    pg,               \* paginate_models applied to a drawn input (PaginateSpec)
    th,               \* per-thread position and locals of concurrent play() calls (ConcSpec)
    session           \* a quiz client accumulating previous_questions (SessionSpec)

vars == <<questions, categories, nextId, random_question, resp, pg, th, session>>

----------------------------------------------------------------------------
\* Bounds of the model.

\* largest primary key the store hands out
MaxId == 2
\* longest selection handed to paginate_models in PaginateSpec
MaxItems == 25
\* largest ?page= value tried
MaxPage == 4

\* the literal page length of paginate_models
PageSize == 10

Ids == 1..MaxId
\* the category ids questions and requests refer to
CatIds == {1, 2}

Min(a, b) == IF a < b THEN a ELSE b
Max(a, b) == IF a > b THEN a ELSE b

----------------------------------------------------------------------------
\* Values.

\* question texts: sequences of characters
Texts == { <<"T", "x">>, <<"x">> }

\* a value that stands for "no question" (random_question before its first assignment)
NoQuestion == [id |-> 0, question |-> <<>>, category |-> 0]

\* Question.format(): the externally visible fields of a row (answer and
\* difficulty are carried through unchanged and play no role here)
Format(q) == [id |-> q.id, question |-> q.question, category |-> q.category]

\* the rows of S as a list in ascending id order (order_by(Question.id).all();
\* the store returns an unordered .all() in primary-key order as well)
RECURSIVE OrderById(_)
OrderById(S) ==
    IF S = {} THEN <<>>
    ELSE LET m == CHOOSE q \in S : \A o \in S : q.id <= o.id
         IN  <<m>> \o OrderById(S \ {m})

\* [x.format() for x in selection]
FormatAll(selection) == [i \in 1..Len(selection) |-> Format(selection[i])]

\* Python list slicing s[start:end] (negative indices count from the end,
\* out-of-range indices are clamped, an empty range gives [])
PySlice(s, start, end) ==
    LET n  == Len(s)
        lo == IF start < 0 THEN Max(start + n, 0) ELSE Min(start, n)
        hi == IF end < 0 THEN Max(end + n, 0) ELSE Min(end, n)
    IN  IF lo >= hi THEN <<>> ELSE SubSeq(s, lo + 1, hi)

\* the ?page= query argument: absent, not an integer, or an integer
PageArgs ==
    { [kind |-> "absent", value |-> 0], [kind |-> "text", value |-> 0] }
    \cup { [kind |-> "int", value |-> v] : v \in (0 - 1)..MaxPage }

\* request.args.get('page', 1, type=int): the default when absent or unparsable
PageOf(arg) == IF arg.kind = "int" THEN arg.value ELSE 1

\* mutant of paginate_models: the page index is not shifted to start at 0
paginate_models_unshifted(arg, selection) ==
    LET page  == PageOf(arg)
        start == page * PageSize
        end   == start + PageSize
    IN  PySlice(FormatAll(selection), start, end)

paginate_models(arg, selection) ==
    LET page   == PageOf(arg)
        start  == (page - 1) * PageSize
        end    == start + PageSize
        models == FormatAll(selection)
    IN  PySlice(models, start, end)

----------------------------------------------------------------------------
\* Responses: jsonify(...) and the error handlers.

\* the status codes create_app registers an error handler for
Handled == {400, 404, 405, 422}

NoPayload == [none |-> TRUE]

\* the 'message' each error handler puts in its body
Message(code) ==
    CASE code = 422 -> "unprocessable"
      [] code = 404 -> "not found"
      [] code = 400 -> "bad request"
      [] code = 405 -> "method not allowed"
      [] OTHER -> ""

\* abort(code), or an exception that leaves the view function (code 500):
\* a registered handler answers with the JSON envelope, anything else is
\* answered by the framework's own error page, which has no envelope
Abort(code) ==
    [ status   |-> code,
      envelope |-> code \in Handled,
      success  |-> FALSE,
      error    |-> IF code \in Handled THEN code ELSE 0,
      message  |-> Message(code),
      payload  |-> NoPayload ]

\* return jsonify({'success': True, ...})
Json(payload) ==
    [ status   |-> 200,
      envelope |-> TRUE,
      success  |-> TRUE,
      error    |-> 0,
      message  |-> "",
      payload  |-> payload ]

\* no response yet
NoOutcome ==
    [ status |-> 0, envelope |-> FALSE, success |-> FALSE, error |-> 0,
      message |-> "", payload |-> NoPayload ]

----------------------------------------------------------------------------
\* Record Store queries.

\* .filter(Question.category == c)
FilterCategory(qs, c) == { q \in qs : q.category = c }

\* mutant of FilterNotIn: the exclusion is not applied
FilterNotIn_none(qs, ids) == qs

\* .filter(Question.id.notin_(ids))
FilterNotIn(qs, ids) == { q \in qs : q.id \notin ids }

\* lower-casing of a text, character by character
LowerChar(c) ==
    CASE c = "T" -> "t"
      [] c = "X" -> "x"
      [] OTHER -> c

Lower(t) == [i \in 1..Len(t) |-> LowerChar(t[i])]

\* term occurs in text as a contiguous run
Contains(text, term) ==
    \E k \in 0..(Len(text) - Len(term)) :
        \A i \in 1..Len(term) : text[k + i] = term[i]

\* .filter(Question.question.ilike('%' + term + '%'))
FilterILike(qs, term) == { q \in qs : Contains(Lower(q.question), Lower(term)) }

\* Category.type of the row with id c
CategoryType(c) == <<"Science", "Art">>[c]

\* the category ids in ascending order (order_by(Category.id).all())
RECURSIVE OrderCats(_)
OrderCats(S) ==
    IF S = {} THEN <<>>
    ELSE LET m == CHOOSE c \in S : \A o \in S : c <= o
         IN  <<m>> \o OrderCats(S \ {m})

----------------------------------------------------------------------------
\* POST /quiz

\* quiz_category of the request body: null/absent, the empty object, or an
\* object with an 'id'
QuizCategories ==
    { [kind |-> "null", id |-> 0], [kind |-> "empty", id |-> 0] }
    \cup { [kind |-> "dict", id |-> c] : c \in CatIds }

\* the request bodies of POST /quiz: not JSON, the JSON value null, or an
\* object with previous_questions (absent = empty) and quiz_category
QuizRequests ==
    { [body |-> b, previous_questions |-> {}, quiz_category |-> [kind |-> "null", id |-> 0]] :
          b \in {"malformed", "null"} }
    \cup { [body |-> "object", previous_questions |-> p, quiz_category |-> c] :
          p \in SUBSET Ids, c \in QuizCategories }

\* Python truthiness of quiz_category
Truthy(category) == category.kind = "dict"

Raised(cause) == [raised |-> TRUE, cause |-> cause, rows |-> <<>>]
Rows(rows) == [raised |-> FALSE, cause |-> "", rows |-> rows]

\* `questions` as the four branches of play() compute it; category['id'] is
\* evaluated before the query runs and raises for a category without 'id'
play_questions(qs, previous_questions, category, fault) ==
    IF previous_questions = {}
    THEN IF ~Truthy(category)
         THEN Raised("subscript")
         ELSE IF fault THEN Raised("fault") ELSE Rows(OrderById(qs))
    ELSE IF Truthy(category)
         THEN IF fault THEN Raised("fault")
              ELSE Rows(OrderById(FilterNotIn(FilterCategory(qs, category.id),
                                              previous_questions)))
         ELSE IF fault THEN Raised("fault")
              ELSE Rows(OrderById(FilterNotIn(qs, previous_questions)))

\* the largest value randint(0, len(formatted_question)) can return
RandintHigh(count) == count

\* play() up to the assignment of random_question: [out, cause, assigned, chosen].
\* r is the value randint returned.  Every exception raised inside the try,
\* abort(404) included, is caught by `except Exception` and becomes abort(404).
play_select(qs, data, fault, r) ==
    IF data.body = "malformed"
    THEN [out |-> Abort(400), cause |-> "badjson", assigned |-> FALSE, chosen |-> NoQuestion]
    ELSE IF data.body = "null"
    THEN [out |-> Abort(500), cause |-> "nodata", assigned |-> FALSE, chosen |-> NoQuestion]
    ELSE
        LET sel == play_questions(qs, data.previous_questions, data.quiz_category, fault)
            formatted_question == FormatAll(sel.rows)
            question_count == Len(formatted_question)
        IN  IF sel.raised
            THEN [out |-> Abort(404), cause |-> sel.cause, assigned |-> FALSE, chosen |-> NoQuestion]
            ELSE IF question_count = 0
            THEN [out |-> Abort(404), cause |-> "empty", assigned |-> FALSE, chosen |-> NoQuestion]
            ELSE IF r >= question_count
            THEN [out |-> Abort(404), cause |-> "index", assigned |-> FALSE, chosen |-> NoQuestion]
            ELSE [out |-> NoOutcome, cause |-> "ok", assigned |-> TRUE,
                  chosen |-> formatted_question[r + 1]]

\* the values randint(0, len(formatted_question)) can take for this request
RandintRange(qs, data, fault) ==
    IF data.body # "object" THEN {0}
    ELSE 0..RandintHigh(Len(play_questions(qs, data.previous_questions,
                                           data.quiz_category, fault).rows))

----------------------------------------------------------------------------
\* The other six view functions.

\* GET /categories
get_all_categories(cats) ==
    LET categories_list == [i \in 1..Cardinality(cats) |-> CategoryType(OrderCats(cats)[i])]
    IN  Json([categories |-> categories_list])

\* GET /questions: the total is computed as Question.query.all().count(), a
\* list.count() call without its argument, which raises TypeError
get_all_questions(qs, page) ==
    LET questions_list == paginate_models(page, OrderById(qs))
    IN  Abort(500)

\* DELETE /questions/<question_id>
delete_question(qs, question_id) ==
    IF \A q \in qs : q.id # question_id THEN Abort(404)
    ELSE Json([deleted |-> question_id])

\* the rows left by question.delete()
delete_rows(qs, question_id) == { q \in qs : q.id # question_id }

\* the request bodies of POST /questions: not JSON, null, an object lacking a
\* required key, or a complete object
NewQuestionRequests ==
    { [body |-> b, question |-> <<>>, category |-> 0] : b \in {"malformed", "null", "partial"} }
    \cup { [body |-> "object", question |-> t, category |-> c] : t \in Texts, c \in CatIds }

\* POST /questions: the row it inserts, if it gets that far
add_new_row(data, id) == [id |-> id, question |-> data.question, category |-> data.category]

\* does POST /questions insert its row
add_inserts(data, fault) == data.body = "object" /\ ~fault

\* POST /questions.  data[...] on None or on a missing key raises outside any
\* try; a failing insert reaches `except Exception.args`, which is not an
\* exception class, so matching it raises TypeError.
add_new_question(qs, data, page, fault, id) ==
    IF data.body = "malformed" THEN Abort(400)
    ELSE IF data.body # "object" THEN Abort(500)
    ELSE IF fault THEN Abort(500)
    ELSE LET all_questions == OrderById(qs \cup {add_new_row(data, id)})
             current_questions == paginate_models(page, all_questions)
         IN  Json([ created |-> id,
                    questions |-> current_questions,
                    total_questions |-> Len(all_questions) ])

\* the request bodies of POST /questions/search
SearchTerms == { <<>>, <<"t">>, <<"X">>, <<"x", "x">> }

SearchRequests ==
    { [body |-> b, search_term |-> <<>>] : b \in {"malformed", "null", "noterm"} }
    \cup { [body |-> "object", search_term |-> t] : t \in SearchTerms }

\* POST /questions/search.  '%' + None raises when search_term is absent; the
\* return sits inside the loop over the categories, so the response carries
\* the first category's label only.
search_for_question(qs, cats, data) ==
    IF data.body = "malformed" THEN Abort(400)
    ELSE IF data.body # "object" THEN Abort(500)
    ELSE LET found == OrderById(FilterILike(qs, data.search_term))
             questions_count == Len(found)
             formatted_question == FormatAll(found)
             ordered == OrderCats(cats)
         IN  IF questions_count = 0 THEN Abort(404)
             ELSE IF Len(ordered) = 0 THEN Abort(404)
             ELSE Json([ questions |-> formatted_question,
                         total_questions |-> questions_count,
                         current_category |-> <<CategoryType(ordered[1])>> ])

\* GET /categories/<category_id>/questions
questions_based_on_category(qs, category_id, page) ==
    LET found == OrderById(FilterCategory(qs, category_id))
        paginated_questions == paginate_models(page, found)
    IN  IF Len(paginated_questions) = 0 THEN Abort(404)
        ELSE Json([ questions |-> paginated_questions,
                    total_questions |-> Len(found),
                    current_category |-> category_id ])

----------------------------------------------------------------------------
\* The server handling one request at a time: one action per route.

NoRequest == [none |-> TRUE]

Idle_pg == [pc |-> "idle", items |-> <<>>, page |-> [kind |-> "absent", value |-> 0], result |-> <<>>]
\* the request threads of ConcSpec
Threads == {1, 2}

Idle_thread == [pc |-> "idle", req |-> NoRequest, chosen |-> NoQuestion, out |-> NoOutcome]
Idle_th == [t \in Threads |-> Idle_thread]
Idle_session ==
    [ pc |-> "idle", category |-> [kind |-> "null", id |-> 0], previous |-> {},
      returned |-> <<>>, outcome |-> NoOutcome ]
NoResponse == [route |-> "none", req |-> NoRequest, out |-> NoOutcome, cause |-> ""]

\* the categories table is filled by the database dump or is still empty
Init ==
    /\ questions = {}
    /\ categories \in {{}, CatIds}
    /\ nextId = 1
    /\ random_question = NoQuestion
    /\ resp = NoResponse
    /\ pg = Idle_pg
    /\ th = Idle_th
    /\ session = Idle_session

GetAllCategories ==
        /\ resp' = [route |-> "categories", req |-> NoRequest,
                    out |-> get_all_categories(categories), cause |-> ""]
        /\ UNCHANGED <<questions, categories, nextId, random_question, pg, th, session>>

GetAllQuestions ==
    \E page \in PageArgs :
        /\ resp' = [route |-> "questions", req |-> [page |-> page],
                    out |-> get_all_questions(questions, page), cause |-> ""]
        /\ UNCHANGED <<questions, categories, nextId, random_question, pg, th, session>>

DeleteQuestion ==
    \E question_id \in Ids :
        /\ resp' = [route |-> "delete", req |-> [question_id |-> question_id],
                    out |-> delete_question(questions, question_id), cause |-> ""]
        /\ questions' = delete_rows(questions, question_id)
        /\ UNCHANGED <<categories, nextId, random_question, pg, th, session>>

AddNewQuestion ==
    \E data \in NewQuestionRequests, page \in PageArgs, fault \in BOOLEAN :
        /\ add_inserts(data, fault) => nextId <= MaxId
        /\ resp' = [route |-> "add", req |-> [data |-> data, page |-> page],
                    out |-> add_new_question(questions, data, page, fault, nextId),
                    cause |-> ""]
        /\ questions' = IF add_inserts(data, fault)
                        THEN questions \cup {add_new_row(data, nextId)}
                        ELSE questions
        /\ nextId' = IF add_inserts(data, fault) THEN nextId + 1 ELSE nextId
        /\ UNCHANGED <<categories, random_question, pg, th, session>>

SearchForQuestion ==
    \E data \in SearchRequests :
        /\ resp' = [route |-> "search", req |-> data,
                    out |-> search_for_question(questions, categories, data), cause |-> ""]
        /\ UNCHANGED <<questions, categories, nextId, random_question, pg, th, session>>

QuestionsBasedOnCategory ==
    \E category_id \in CatIds, page \in PageArgs :
        /\ resp' = [route |-> "category", req |-> [category_id |-> category_id, page |-> page],
                    out |-> questions_based_on_category(questions, category_id, page),
                    cause |-> ""]
        /\ UNCHANGED <<questions, categories, nextId, random_question, pg, th, session>>

\* mutant of play_rows: the returned question is removed as "used"
play_rows_used(qs, o) == { q \in qs : q.id # o.chosen.id }

\* the Question table after play(): the handler issues queries only
play_rows(qs, o) == qs

\* play() for one request: the chosen question is stored in the global
\* random_question and the response is built from that global
play(data, fault, r) ==
    LET o == play_select(questions, data, fault, r)
    IN  /\ random_question' = IF o.assigned THEN o.chosen ELSE random_question
        /\ resp' = [route |-> "quiz", req |-> data,
                    out |-> IF o.assigned
                            THEN Json([question |-> random_question'])
                            ELSE o.out,
                    cause |-> o.cause]
        /\ questions' = play_rows(questions, o)
        /\ UNCHANGED <<categories, nextId>>

\* POST /quiz
Play ==
    \E data \in QuizRequests, fault \in BOOLEAN :
        \E r \in RandintRange(questions, data, fault) :
            /\ play(data, fault, r)
            /\ UNCHANGED <<pg, th, session>>

\* a request no route accepts: unknown URL (404) or wrong method (405)
Unrouted ==
    \E code \in {404, 405} :
        /\ resp' = [route |-> "unrouted", req |-> NoRequest, out |-> Abort(code), cause |-> ""]
        /\ UNCHANGED <<questions, categories, nextId, random_question, pg, th, session>>

Next ==
    \/ GetAllCategories
    \/ GetAllQuestions
    \/ DeleteQuestion
    \/ AddNewQuestion
    \/ SearchForQuestion
    \/ QuestionsBasedOnCategory
    \/ Play
    \/ Unrouted

Spec == Init /\ [][Next]_vars

----------------------------------------------------------------------------
\* The read-only requests over a store that already holds rows.

\* the text of the row with this id in a store drawn at start
TextOf(id) == IF id % 2 = 1 THEN <<"T", "x">> ELSE <<"x">>

\* the contents of the Question table drawn at start: any set of ids, each row
\* in any category
DrawnStores ==
    { { [id |-> i, question |-> TextOf(i), category |-> c[i]] : i \in I } :
          <<I, c>> \in (SUBSET Ids) \X [Ids -> CatIds] }

ReadInit ==
    /\ questions \in DrawnStores
    /\ categories = CatIds
    /\ nextId = MaxId + 1
    /\ random_question = NoQuestion
    /\ resp = NoResponse
    /\ pg = Idle_pg
    /\ th = Idle_th
    /\ session = Idle_session

ReadNext ==
    \/ GetAllQuestions
    \/ QuestionsBasedOnCategory
    \/ Play

ReadSpec == ReadInit /\ [][ReadNext]_vars

----------------------------------------------------------------------------
\* paginate_models on its own: a selection and a ?page= argument are drawn,
\* then the function is applied.

\* a selection of n rows, in ascending or in descending id order
Selection(n, ascending) ==
    [ i \in 1..n |->
        LET id == IF ascending THEN i ELSE n + 1 - i
        IN  [id |-> id, question |-> TextOf(id), category |-> 1] ]

PgInit ==
    /\ questions = {}
    /\ categories = CatIds
    /\ nextId = 1
    /\ random_question = NoQuestion
    /\ resp = NoResponse
    /\ \E n \in 0..MaxItems, ascending \in BOOLEAN, page \in PageArgs :
           pg = [pc |-> "call", items |-> Selection(n, ascending), page |-> page, result |-> <<>>]
    /\ th = Idle_th
    /\ session = Idle_session

Paginate ==
    /\ pg.pc = "call"
    /\ pg' = [pg EXCEPT !.pc = "done", !.result = paginate_models(pg.page, pg.items)]
    /\ UNCHANGED <<questions, categories, nextId, random_question, resp, th, session>>

PgNext == Paginate

PaginateSpec == PgInit /\ [][PgNext]_vars

----------------------------------------------------------------------------
\* Concurrent POST /quiz requests, one per thread.  A thread runs play() up to
\* the store of the global random_question in one step (everything before it
\* is local to the thread) and builds its response from the global in a later
\* step; other threads may run in between.

ConcInit ==
    /\ questions \in DrawnStores
    /\ categories = CatIds
    /\ nextId = MaxId + 1
    /\ random_question = NoQuestion
    /\ resp = NoResponse
    /\ pg = Idle_pg
    /\ th = Idle_th
    /\ session = Idle_session

\* lines 289-315: the request is read, the candidates queried, one is chosen
\* and assigned to the global (or the request is aborted)
PlaySelect(t) ==
    /\ th[t].pc = "idle"
    /\ \E data \in QuizRequests, fault \in BOOLEAN :
         \E r \in RandintRange(questions, data, fault) :
           LET o == play_select(questions, data, fault, r)
           IN  /\ random_question' = IF o.assigned THEN o.chosen ELSE random_question
               /\ th' = [th EXCEPT ![t] =
                            [ pc |-> IF o.assigned THEN "selected" ELSE "done",
                              req |-> data, chosen |-> o.chosen, out |-> o.out ]]
    /\ UNCHANGED <<questions, categories, nextId, resp, pg, session>>

\* lines 317-320: return jsonify({... 'question': random_question})
PlayReturn(t) ==
    /\ th[t].pc = "selected"
    /\ th' = [th EXCEPT ![t].pc = "done",
                        ![t].out = Json([question |-> random_question])]
    /\ UNCHANGED <<questions, categories, nextId, random_question, resp, pg, session>>

ConcNext == \E t \in Threads : PlaySelect(t) \/ PlayReturn(t)

ConcSpec == ConcInit /\ [][ConcNext]_vars

----------------------------------------------------------------------------
\* A quiz session: one client calls POST /quiz with a fixed quiz_category,
\* starting from an empty previous_questions and adding the id of every
\* question it is given, until a call fails.

SessionInit ==
    /\ questions \in DrawnStores
    /\ categories = CatIds
    /\ nextId = MaxId + 1
    /\ random_question = NoQuestion
    /\ resp = NoResponse
    /\ pg = Idle_pg
    /\ th = Idle_th
    /\ \E c \in QuizCategories :
           session = [ pc |-> "play", category |-> c, previous |-> {},
                       returned |-> <<>>, outcome |-> NoOutcome ]

SessionPlay ==
    /\ session.pc = "play"
    /\ LET data == [ body |-> "object", previous_questions |-> session.previous,
                     quiz_category |-> session.category ]
       IN  \E fault \in BOOLEAN :
             \E r \in RandintRange(questions, data, fault) :
               play(data, fault, r)
    /\ session' = IF resp'.out.success
                  THEN [session EXCEPT
                          !.previous = @ \cup {resp'.out.payload.question.id},
                          !.returned = Append(@, resp'.out.payload.question.id)]
                  ELSE [session EXCEPT !.pc = "ended", !.outcome = resp'.out]
    /\ UNCHANGED <<pg, th>>

SessionNext == SessionPlay

\* the client keeps calling until a call fails
SessionSpec == SessionInit /\ [][SessionNext]_vars /\ WF_vars(SessionPlay)

----------------------------------------------------------------------------
\* Properties.

\* the page a request asks for, as the contract reads it: the given integer,
\* or 1 when the request gives none
AskedPage == IF pg.page.kind = "int" THEN pg.page.value ELSE 1

\* C1: for every page >= 1 (1 when the request gives none) paginate_models
\* returns exactly the formatted rows at positions 10*(page-1)+1 ..
\* 10*(page-1)+10 of its input, in input order: its length is
\* min(10, max(0, len - 10*(page-1))), and it is empty beyond the last page.
C1_PageSlice ==
    (pg.pc = "done" /\ pg.page.kind \in {"absent", "int"} /\ AskedPage >= 1) =>
        LET before == 10 * (AskedPage - 1)
        IN  /\ Len(pg.result) = Min(10, Max(0, Len(pg.items) - before))
            /\ \A k \in 1..Len(pg.result) : pg.result[k] = Format(pg.items[before + k])

\* C1 witness: 25 rows in descending id order, page 3: the last 5 come back
C1_Witness ==
    /\ pg.pc = "done"
    /\ Len(pg.items) = 25
    /\ pg.items[1].id = 25
    /\ pg.page = [kind |-> "int", value |-> 3]
    /\ Len(pg.result) = 5
    /\ pg.result[5].id = 1

\* the last request was a POST /quiz whose body is a JSON object
QuizHandled == resp.route = "quiz" /\ resp.req.body = "object"

\* the last request was a POST /quiz answered with a question
QuizSucceeded == QuizHandled /\ resp.out.success

\* the candidate set of the contract: all questions, restricted to the
\* category when the request provides one, minus the excluded ids
Candidates ==
    { q \in questions :
        /\ resp.req.quiz_category.kind = "dict" => q.category = resp.req.quiz_category.id
        /\ q.id \notin resp.req.previous_questions }

\* C2: a successful POST /quiz response never carries a question whose id is
\* in the request's previous_questions.
C2_NeverExcluded ==
    QuizSucceeded => resp.out.payload.question.id \notin resp.req.previous_questions

\* C2 witness: a question was returned although the request excluded a stored
\* question that the category filter would have let through
C2_Witness ==
    /\ QuizSucceeded
    /\ \E q \in questions :
         /\ q.id \in resp.req.previous_questions
         /\ resp.req.quiz_category.kind = "dict" => q.category = resp.req.quiz_category.id

\* C3: a POST /quiz request that provides category C never gets a question
\* whose category is not C.
C3_OnlyCategory ==
    (QuizSucceeded /\ resp.req.quiz_category.kind = "dict") =>
        resp.out.payload.question.category = resp.req.quiz_category.id

\* C4: whenever the candidate set is non-empty (and the store answers), the
\* selection index is inside the candidate list and the request succeeds with
\* a member of the candidate set.
C4_PicksCandidate ==
    (QuizHandled /\ resp.cause # "fault" /\ Candidates # {}) =>
        /\ resp.cause # "index"
        /\ resp.out.success
        /\ \E q \in Candidates : resp.out.payload.question = Format(q)

\* C5: whenever the candidate set is empty the request ends in NotFound (404),
\* never in a success or an unhandled fault.
C5_EmptyIsNotFound ==
    (QuizHandled /\ Candidates = {}) => resp.out = Abort(404)

\* C6: every response is a success envelope or a failure envelope with an
\* error code in {400, 404, 405, 422}; no 500 reaches the client.
C6_UniformEnvelope ==
    resp.route # "none" =>
        /\ resp.out.envelope
        /\ \/ resp.out.success /\ resp.out.status = 200
           \/ ~resp.out.success /\ resp.out.error \in {400, 404, 405, 422}
                                /\ resp.out.status = resp.out.error

\* what POST /quiz answers, on the current store, to a request that excludes
\* every id (an exhausted quiz)
ExhaustedOutcome ==
    play_select(questions,
                [ body |-> "object", previous_questions |-> Ids \cup {0},
                  quiz_category |-> [kind |-> "null", id |-> 0] ],
                FALSE, 0)

\* C7: the outcome of POST /quiz when the store query fails differs from the
\* outcome it gives for an empty candidate set.
C7_FaultDistinct ==
    (QuizHandled /\ resp.cause = "fault") =>
        /\ ExhaustedOutcome.cause = "empty"
        /\ resp.out # ExhaustedOutcome.out

\* C8: under every interleaving, the response of a POST /quiz request carries
\* the question that request selected, a non-excluded member of its own
\* candidate set.
C8_OwnQuestion ==
    \A t \in Threads :
        (th[t].pc = "done" /\ th[t].out.success) =>
            /\ th[t].out.payload.question = th[t].chosen
            /\ th[t].out.payload.question.id \notin th[t].req.previous_questions

\* C9: the paginated listings and the quiz selection leave the stored
\* questions and categories unchanged, whether they succeed or fail.
C9_ReadOnly ==
    [][ resp'.route \in {"questions", "category", "quiz"} =>
            (questions' = questions /\ categories' = categories) ]_vars

\* C9 witness: a quiz call has returned a question and the question is still stored
C9_Witness ==
    /\ resp.route = "quiz"
    /\ resp.out.success
    /\ \E q \in questions : Format(q) = resp.out.payload.question

\* C10: in a session whose client adds every returned id to previous_questions,
\* no question is returned twice, there are never more successful responses
\* than stored questions, and the session reaches NotFound.
C10_SessionEnds ==
    /\ [](/\ \A i, j \in 1..Len(session.returned) :
                session.returned[i] = session.returned[j] => i = j
          /\ Len(session.returned) <= Cardinality(questions))
    /\ <>(session.pc = "ended" /\ session.outcome = Abort(404))

\* C10 witness: the session ended after every stored question was returned once
C10_Witness ==
    /\ session.pc = "ended"
    /\ Len(session.returned) = MaxId
    /\ Cardinality(questions) = MaxId

====
